---------------------------- MODULE Spec2Model ----------------------------
(***************************************************************************)
(* Heroic to Lutris game importer (src/main.py).                           *)
(*                                                                         *)
(* The importer reads the Heroic sideload manifest (library.json) and the  *)
(* per-game option files, and for every installed game writes one YAML     *)
(* config file into the Lutris config directory and inserts one row into   *)
(* the Lutris catalog (table games of pga.db).  All inserts of a run are   *)
(* in one transaction that is committed once, after the loop.              *)
(*                                                                         *)
(* Strings are sequences of one-character strings, so that create_slug,    *)
(* os.path.dirname and the f-string that names the config file are         *)
(* computed character by character as the code computes them.  The two     *)
(* non-ASCII characters of create_slug are written "TM" and "(R)".         *)
(*                                                                         *)
(* The environment can fail: a write of the config file, an insert, the    *)
(* stat of an option file, the SELECT and the commit raise when it says so *)
(* (at most MaxFaults times in a behaviour), and print raises              *)
(* UnicodeEncodeError when the encoding of stdout has no code for a        *)
(* character of the message.                                               *)
(*                                                                         *)
(* Manifests are well typed (the fields of an entry are strings, a boolean *)
(* and an object, or are absent); an absent string field and an empty one  *)
(* are both the empty sequence, which is what the code's truthiness tests  *)
(* make of them.                                                           *)
(***************************************************************************)
EXTENDS Integers, Sequences, FiniteSets, TLC

(***************************************************************************)
(* Bounds of the model.                                                    *)
(***************************************************************************)
MaxGames == 2          \* entries in the manifest
MaxClock == 1          \* int(time.time()) ranges over 0..MaxClock
MaxRuns  == 2          \* times the script is run, one after the other
MaxFaults == 1         \* failures the environment injects (write, insert, stat,
                       \* select, commit)

(***************************************************************************)
(* Characters and strings.                                                 *)
(***************************************************************************)
TM  == "TM"
REG == "(R)"
\* the check mark of the message of line 162
CHECK == "(v)"

Upper == <<"A","B","C","D","E","F","G","H","I","J","K","L","M",
           "N","O","P","Q","R","S","T","U","V","W","X","Y","Z">>
LowerOf == <<"a","b","c","d","e","f","g","h","i","j","k","l","m",
             "n","o","p","q","r","s","t","u","v","w","x","y","z">>

\* str.lower() on one character
char_lower(c) ==
    IF \E k \in DOMAIN Upper : Upper[k] = c
    THEN LowerOf[CHOOSE k \in DOMAIN Upper : Upper[k] = c]
    ELSE c

\* str.lower()
str_lower(s) == [k \in 1..Len(s) |-> char_lower(s[k])]

\* str.replace(old, new) for a one-character old
RECURSIVE str_replace(_, _, _)
str_replace(s, old, new) ==
    IF s = <<>> THEN <<>>
    ELSE (IF Head(s) = old THEN new ELSE <<Head(s)>>)
         \o str_replace(Tail(s), old, new)

\* main.py create_slug: a chain of replace calls on the lowercased title
create_slug(title) ==
    str_replace(
     str_replace(
      str_replace(
       str_replace(
        str_replace(
         str_replace(
          str_replace(str_lower(title), " ", <<"-">>),
          ":", <<>>),
         "'", <<>>),
        REG, <<>>),
       TM, <<>>),
      ".", <<>>),
     "&", <<"a","n","d">>)

\* str.rfind('/') + 1 : the length of the prefix that ends at the last '/'
RECURSIVE rfind_slash(_)
rfind_slash(p) ==
    IF p = <<>> THEN 0
    ELSE IF p[Len(p)] = "/" THEN Len(p)
    ELSE rfind_slash(SubSeq(p, 1, Len(p) - 1))

\* str.rstrip('/')
RECURSIVE rstrip_slash(_)
rstrip_slash(p) ==
    IF p # <<>> /\ p[Len(p)] = "/"
    THEN rstrip_slash(SubSeq(p, 1, Len(p) - 1))
    ELSE p

\* dirname that forgets to strip the separator
dirname_keeps_slash(p) == SubSeq(p, 1, rfind_slash(p))

\* os.path.dirname (posixpath)
dirname(p) ==
    LET head == SubSeq(p, 1, rfind_slash(p))
    IN  IF head # <<>> /\ \E k \in 1..Len(head) : head[k] # "/"
        THEN rstrip_slash(head)
        ELSE head

Digits == <<"0","1","2","3","4","5","6","7","8","9">>

\* str(int) for a non-negative integer
RECURSIVE int_str(_)
int_str(n) ==
    IF n < 10 THEN <<Digits[n + 1]>>
    ELSE int_str(n \div 10) \o <<Digits[(n % 10) + 1]>>

\* f"{game_slug}-{int(time.time())}"
config_slug_of(game_slug, t) == game_slug \o <<"-">> \o int_str(t)

\* f"{config_slug}.yml", the name of the config file in the config directory
yaml_name(cs) == cs \o <<".","y","m","l">>


(***************************************************************************)
(* The inputs: titles, install objects, entries of the manifest, the       *)
(* Heroic option files, the catalog before the first run.                  *)
(***************************************************************************)
\* "Foo: Bar's Quest(TM)"
TitleQuest == <<"F","o","o",":"," ","B","a","r","'","s"," ","Q","u","e","s","t",TM>>
\* "foo-bars quest." : another title with the slug of TitleQuest
TitleQuestAlt == <<"f","o","o","-","b","a","r","s"," ","q","u","e","s","t",".">>
\* "A&B(R)."
TitleAB == <<"A","&","B",REG,".">>

\* "/games/Foo/foo.exe", "/g/foo", "/d", "/p"
ExeFoo == <<"/","g","a","m","e","s","/","F","o","o","/","f","o","o",".","e","x","e">>
ExeG   == <<"/","g","/","f","o","o">>
DirD   == <<"/","d">>
PrefixP == <<"/","p">>

\* an entry of the manifest: is_installed, title, app_name and the executable
\* and path of its "install" object
Game(inst, title, exe, path, app) ==
    [is_installed |-> inst, title |-> title, executable |-> exe, path |-> path,
     app_name |-> app]

\* the sideloaded library the manifests are taken from: two installed games
\* whose titles differ and whose slugs are equal, a third with another slug, an
\* installed game with no executable, one with no title, and an uninstalled game
Library ==
    << Game(TRUE,  TitleQuest,    ExeFoo, <<>>, "app1"),
       Game(TRUE,  TitleQuestAlt, ExeG,   DirD, "app3"),
       Game(TRUE,  TitleAB,       ExeG,   <<>>, "app2"),
       Game(TRUE,  TitleAB,       <<>>,   DirD, "app1"),
       Game(TRUE,  <<>>,          ExeFoo, <<>>, "app1"),
       Game(FALSE, TitleQuest,    ExeFoo, <<>>, "app1") >>

Games == {Library[k] : k \in 1..Len(Library)}

RECURSIVE SeqsUpTo(_, _)
SeqsUpTo(S, n) ==
    IF n = 0 THEN {<<>>}
    ELSE LET shorter == SeqsUpTo(S, n - 1)
         IN  shorter \cup {Append(q, x) : q \in {r \in shorter : Len(r) = n - 1}, x \in S}

\* the lists heroic_data['games'] ranges over: up to n entries of the library,
\* in the order of the library
Manifests(n) ==
    LET increasing(ix) == \A a, b \in 1..Len(ix) : a < b => ix[a] < ix[b]
    IN  {[k \in 1..Len(ix) |-> Library[ix[k]]] :
            ix \in {jx \in SeqsUpTo(1..Len(Library), n) : increasing(jx)}}

\* ~/.config/heroic/GamesConfig/<app_name>.json : present and valid, absent, or
\* present and not parseable
HeroicConfigFile ==
    [app1 |-> "valid", app2 |-> "absent", app3 |-> "malformed"]

\* get_heroic_game_config: the options of a game, {} when the file is absent or
\* cannot be read ({}.get gives None for the prefix and False for the flags)
get_heroic_game_config(app_name) ==
    IF HeroicConfigFile[app_name] = "valid"
    THEN [wine_prefix |-> PrefixP, dxvk |-> TRUE, esync |-> TRUE, fsync |-> FALSE]
    ELSE [wine_prefix |-> <<>>, dxvk |-> FALSE, esync |-> FALSE, fsync |-> FALSE]

\* lutris_game_config, the document written to the config file
lutris_game_config(game) ==
    LET heroic_config == get_heroic_game_config(game.app_name)
    IN  [exe |-> game.executable, prefix |-> heroic_config.wine_prefix,
         dxvk |-> heroic_config.dxvk, esync |-> heroic_config.esync,
         fsync |-> heroic_config.fsync]

\* a row of table games as the INSERT statement fills it
GameRow(game, game_slug, install_dir, config_slug) ==
    [name |-> game.title, slug |-> game_slug, runner |-> "wine",
     executable |-> game.executable, directory |-> install_dir,
     installed |-> 1, configpath |-> config_slug]

\* a row that Lutris itself put into the catalog before the first run
OldRow ==
    [name |-> TitleQuest, slug |-> create_slug(TitleQuest), runner |-> "wine",
     executable |-> ExeG, directory |-> DirD, installed |-> 1,
     configpath |-> <<"o","l","d">>]

PreCatalogs == {<<>>, <<OldRow>>}

\* the candidates of possible_paths (by position, 1 to 3) that exist before the
\* first run
DirStates == {{}, {2, 3}}

Answers == {"y", "Y", "n", ""}

(***************************************************************************)
(* The steps of the loop body as functions of the entry.                   *)
(***************************************************************************)
\* create_slug of the titles of the manifest entries, computed once
slug_of == [t \in {g.title : g \in Games} |-> create_slug(t)]

\* install_dir that ignores the explicit install path
install_dir_ignores_path(game) == dirname(game.executable)

\* lines 113-124: the explicit install path, else the directory of the executable
install_dir_of(game) ==
    IF game.path # <<>> THEN game.path ELSE dirname(game.executable)

\* the duplicate test that never finds a duplicate
slug_exists_never(game_slug, slugs) == FALSE

\* line 129: game_slug in existing_slugs
slug_exists(game_slug, slugs) == game_slug \in slugs

\* lines 102-132: the early exits of the loop body, in the order of the code
classify(game, slugs) ==
    IF ~game.is_installed THEN "notinstalled"
    ELSE IF game.title = <<>> THEN "notitle"
    ELSE IF game.executable = <<>> THEN "noexe"
    ELSE IF slug_exists(slug_of[game.title], slugs) THEN "exists"
    ELSE "eligible"

\* the files of the config directories: a file is (dir, name) with a content
FileAt(fs, dir, name) == {f \in fs : f.dir = dir /\ f.name = name}

\* open(yaml_path, 'w') and yaml.dump: a complete file replaces what was there
write_yaml(fs, dir, name, doc) ==
    (fs \ FileAt(fs, dir, name))
    \cup {[dir |-> dir, name |-> name, complete |-> TRUE, doc |-> doc]}

\* open succeeded and yaml.dump raised before anything reached the file: the
\* file is there, truncated
EmptyDoc == [exe |-> <<>>, prefix |-> <<>>, dxvk |-> FALSE, esync |-> FALSE, fsync |-> FALSE]
write_yaml_partial(fs, dir, name) ==
    (fs \ FileAt(fs, dir, name))
    \cup {[dir |-> dir, name |-> name, complete |-> FALSE, doc |-> EmptyDoc]}

\* yaml_path.unlink() when yaml_path.exists()
unlink(fs, dir, name) == fs \ FileAt(fs, dir, name)

\* what a failed write leaves: open raised ("noopen"); open succeeded and the
\* document did not reach the file ("truncated"); open succeeded, yaml.dump
\* raised and the close of the with block flushed the whole document ("complete")
WriteFaults == {"noopen", "truncated", "complete"}

\* a write-error handler that removes the file it could not write
files_after_write_error_cleans(fs, dir, name, doc, how) == unlink(fs, dir, name)

\* lines 149-155: the handler of a failed write removes nothing
files_after_write_error(fs, dir, name, doc, how) ==
    IF how = "noopen" THEN fs
    ELSE IF how = "truncated" THEN write_yaml_partial(fs, dir, name)
    ELSE write_yaml(fs, dir, name, doc)

\* lines 167-171: the handler of sqlite3.Error removes the config file
files_after_insert_error(fs, dir, name) == unlink(fs, dir, name)

\* a top-level handler that commits before closing
catalog_after_exception_commits(committed, uncommitted) == committed \o uncommitted

\* lines 178-186: the top-level handler closes the connection without commit,
\* which rolls the open transaction back
catalog_after_exception(committed, uncommitted) == committed

\* line 173: conn.commit()
catalog_after_commit(committed, uncommitted) == committed \o uncommitted

\* line 96-97: the slugs of the rows of the catalog
slugs_of(rows) == {rows[k].slug : k \in 1..Len(rows)}

SetMin(S) == CHOOSE x \in S : \A y \in S : x <= y

\* find_lutris_config_dir: the first candidate that exists, else the first
\* candidate is created; 0 stands for None (mkdir raised OSError)
find_lutris_config_dir(existing, mkdir_ok) ==
    IF existing # {}
    THEN [dir |-> SetMin(existing), dirs |-> existing]
    ELSE IF mkdir_ok
         THEN [dir |-> 1, dirs |-> {1}]
         ELSE [dir |-> 0, dirs |-> existing]

\* the encodings of sys.stdout: one that has every character of the messages,
\* one that has the trade mark and registered signs and no check mark, one that
\* has the registered sign alone, one that has none of the three
Encodings == {"utf-8", "cp1252", "latin-1", "ascii"}

\* the characters of the messages the encoding has no code for
unencodable(enc) ==
    CASE enc = "utf-8"   -> {}
      [] enc = "cp1252"  -> {CHECK}
      [] enc = "latin-1" -> {TM, CHECK}
      [] enc = "ascii"   -> {TM, REG, CHECK}

\* the encoding has a code for the character
encodable(c, enc) == c \notin unencodable(enc)

\* print(text) raises UnicodeEncodeError
print_raises(text, enc) == \E k \in 1..Len(text) : ~encodable(text[k], enc)

\* the interpolated parts and the non-ASCII literals of the messages of the
\* loop body: lines 118, 130, 153, 162-165 and 168
msg_no_executable(game) == game.title
msg_exists(game, game_slug) == game.title \o game_slug
msg_write_error(game) == game.title
msg_added(game, wine_prefix, yaml_path) ==
    <<CHECK>> \o game.title \o game.executable \o wine_prefix \o yaml_path
msg_insert_error(game) == game.title

\* the rows of the open transaction after an insert raised sqlite3.Error: the
\* statement alone is undone, or SQLite rolled the whole transaction back
pending_after_insert_error(uncommitted, rolled_back) ==
    IF rolled_back THEN <<>> ELSE uncommitted


(***************************************************************************)
(* The state.                                                              *)
(***************************************************************************)
VARIABLES
    manifestState,     \* library.json: "ok", "missing" or "malformed"
    games,             \* heroic_data['games'] when the manifest is "ok"
    dbExists,          \* pga.db exists
    catalog,           \* the committed rows of table games, in rowid order
    dirs,              \* the candidate config directories that exist
    files,             \* the files of the config directories
    clock,             \* the last value of int(time.time())
    stdout,            \* the encoding of sys.stdout in this run
    pc,                \* "idle": before main(); "loop": in the for loop; "done"
    run,               \* the number of this run of the script
    ended,             \* how the run ended ("" while it has not)
    lutris_config_dir, \* the directory find_lutris_config_dir returned, 0 = None
    existing_slugs,    \* the set read by SELECT slug FROM games
    pending,           \* rows inserted by the open transaction
    pos,               \* index of the entry the loop is at
    added_games,
    skipped_games,
    outcome,           \* per entry, the branch of the loop body it left by
    config_slug,       \* per entry, the config_slug computed for it
    faults,            \* failures injected so far
    atStart,           \* catalog, dirs and files when this run began
    migrated           \* the entries whose rows earlier runs committed, with
                       \* the config_slug they were given

vars == <<manifestState, games, dbExists, catalog, dirs, files, clock, stdout, pc,
          run, ended, lutris_config_dir, existing_slugs, pending, pos,
          added_games, skipped_games, outcome, config_slug, faults, atStart,
          migrated>>

env == <<manifestState, games, dbExists>>
CanFail == faults < MaxFaults
counters == <<added_games, skipped_games>>

Entries == 1..Len(games)

Snapshot(c, d, f) == [catalog |-> c, dirs |-> d, files |-> f]

Init ==
    /\ manifestState \in {"ok", "missing", "malformed"}
    /\ games \in (IF manifestState = "ok" THEN Manifests(MaxGames) ELSE {<<>>})
    /\ dbExists \in BOOLEAN
    /\ catalog \in (IF dbExists THEN PreCatalogs ELSE {<<>>})
    /\ dirs \in DirStates
    /\ files = {}
    /\ clock = 0
    /\ stdout = "utf-8"
    /\ pc = "idle"
    /\ run = 1
    /\ ended = ""
    /\ lutris_config_dir = 0
    /\ existing_slugs = {}
    /\ pending = <<>>
    /\ pos = 1
    /\ added_games = 0
    /\ skipped_games = 0
    /\ outcome = [i \in Entries |-> "pending"]
    /\ config_slug = [i \in Entries |-> <<>>]
    /\ faults = 0
    /\ atStart = Snapshot(catalog, dirs, files)
    /\ migrated = {}

(***************************************************************************)
(* main() up to the loop.                                                  *)
(***************************************************************************)
\* lines 195-198: any answer but y or Y cancels
Cancel(answer) ==
    /\ pc = "idle"
    /\ str_lower(<<answer>>) # <<"y">>
    /\ pc' = "done"
    /\ ended' = "cancelled"
    /\ UNCHANGED <<env, catalog, dirs, files, clock, stdout, run, lutris_config_dir,
                   existing_slugs, pending, pos, counters, outcome, config_slug,
                   atStart, migrated, faults>>

\* lines 73-83: the config directory is looked up (and created when there is
\* none) before the required files are tested
AbortMissing(answer, mkdir_ok) ==
    LET found == find_lutris_config_dir(dirs, mkdir_ok) IN
    /\ pc = "idle"
    /\ str_lower(<<answer>>) = <<"y">>
    /\ ~(manifestState # "missing" /\ dbExists /\ found.dir # 0)
    /\ dirs' = found.dirs
    /\ lutris_config_dir' = found.dir
    /\ pc' = "done"
    /\ ended' = "missing"
    /\ UNCHANGED <<env, catalog, files, clock, stdout, run, existing_slugs, pending,
                   pos, counters, outcome, config_slug, atStart, migrated, faults>>

\* lines 85-90: json.load raises
AbortUnreadable(answer, mkdir_ok) ==
    LET found == find_lutris_config_dir(dirs, mkdir_ok) IN
    /\ pc = "idle"
    /\ str_lower(<<answer>>) = <<"y">>
    /\ manifestState = "malformed" /\ dbExists /\ found.dir # 0
    /\ dirs' = found.dirs
    /\ lutris_config_dir' = found.dir
    /\ pc' = "done"
    /\ ended' = "unreadable"
    /\ UNCHANGED <<env, catalog, files, clock, stdout, run, existing_slugs, pending,
                   pos, counters, outcome, config_slug, atStart, migrated, faults>>

\* lines 92-99: connect, read the slugs of the catalog, enter the loop
EnterLoop(answer, mkdir_ok, enc) ==
    LET found == find_lutris_config_dir(dirs, mkdir_ok) IN
    /\ pc = "idle"
    /\ str_lower(<<answer>>) = <<"y">>
    /\ manifestState = "ok" /\ dbExists /\ found.dir # 0
    /\ dirs' = found.dirs
    /\ lutris_config_dir' = found.dir
    /\ stdout' = enc
    /\ existing_slugs' = slugs_of(catalog)
    /\ pending' = <<>>
    /\ added_games' = 0
    /\ skipped_games' = 0
    /\ pos' = 1
    /\ pc' = "loop"
    /\ UNCHANGED <<env, catalog, files, clock, run, ended, outcome, config_slug,
                   atStart, migrated, faults>>

\* lines 94-97 raise sqlite3.Error (the database is locked or has no table
\* games): lines 178-186 catch it before the loop is entered
SelectRaises(answer, mkdir_ok) ==
    LET found == find_lutris_config_dir(dirs, mkdir_ok) IN
    /\ pc = "idle"
    /\ str_lower(<<answer>>) = <<"y">>
    /\ manifestState = "ok" /\ dbExists /\ found.dir # 0
    /\ CanFail
    /\ faults' = faults + 1
    /\ dirs' = found.dirs
    /\ lutris_config_dir' = found.dir
    /\ pc' = "done"
    /\ ended' = "raised"
    /\ UNCHANGED <<env, catalog, files, clock, stdout, run, existing_slugs, pending,
                   pos, counters, outcome, config_slug, atStart, migrated>>

(***************************************************************************)
(* One iteration of the for loop, by the branch it takes.  In every branch *)
(* that prints, the print comes before the counter is updated, and when it *)
(* raises the exception leaves the loop.                                   *)
(***************************************************************************)
InLoop == pc = "loop" /\ pos <= Len(games)

\* the iteration ends and the loop goes on
Leave(i, how) ==
    /\ outcome' = [outcome EXCEPT ![i] = how]
    /\ pos' = pos + 1
    /\ UNCHANGED <<pc, ended, catalog>>

\* lines 178-186: an exception left the loop body; the top-level handler prints
\* the traceback and the connection is closed without commit
RaiseOut(i) ==
    /\ outcome' = [outcome EXCEPT ![i] = "raised"]
    /\ catalog' = catalog_after_exception(catalog, pending)
    /\ pending' = <<>>
    /\ pc' = "done"
    /\ ended' = "raised"
    /\ UNCHANGED <<pos, counters>>

\* lines 102-103
PassNotInstalled ==
    /\ InLoop
    /\ classify(games[pos], existing_slugs) = "notinstalled"
    /\ Leave(pos, "notinstalled")
    /\ UNCHANGED <<env, dirs, files, clock, stdout, run, lutris_config_dir,
                   existing_slugs, pending, counters, config_slug, atStart,
                   migrated, faults>>

\* lines 105-108, 117-120 and 129-132: the three skips before any write; the
\* second and the third print a message that holds the title
SkipGame ==
    LET game == games[pos]
        how == classify(game, existing_slugs)
        msg == IF how = "noexe" THEN msg_no_executable(game)
               ELSE IF how = "exists" THEN msg_exists(game, slug_of[game.title])
               ELSE <<>> IN
    /\ InLoop
    /\ how \in {"notitle", "noexe", "exists"}
    /\ IF print_raises(msg, stdout)
       THEN RaiseOut(pos)
       ELSE /\ Leave(pos, how)
            /\ skipped_games' = skipped_games + 1
            /\ UNCHANGED <<pending, added_games>>
    /\ UNCHANGED <<env, dirs, files, clock, stdout, run, lutris_config_dir,
                   existing_slugs, config_slug, atStart, migrated, faults>>

\* line 134: Path.exists() in get_heroic_game_config (line 54) is outside its
\* try block and raises OSError when stat fails with anything but not-found
\* (an app_name longer than a file name may be, a directory that may not be
\* searched)
LoopRaises ==
    /\ InLoop
    /\ CanFail
    /\ faults' = faults + 1
    /\ classify(games[pos], existing_slugs) = "eligible"
    /\ RaiseOut(pos)
    /\ UNCHANGED <<env, dirs, files, clock, stdout, run, lutris_config_dir,
                   existing_slugs, config_slug, atStart, migrated>>

\* lines 146-155: the config file cannot be written
WriteFails(t, how) ==
    LET game == games[pos]
        name == config_slug_of(slug_of[game.title], t) IN
    /\ InLoop
    /\ CanFail
    /\ faults' = faults + 1
    /\ classify(game, existing_slugs) = "eligible"
    /\ clock' = t
    /\ config_slug' = [config_slug EXCEPT ![pos] = name]
    /\ files' = files_after_write_error(files, lutris_config_dir, yaml_name(name),
                                        lutris_game_config(game), how)
    /\ IF print_raises(msg_write_error(game), stdout)
       THEN RaiseOut(pos)
       ELSE /\ Leave(pos, "writefail")
            /\ skipped_games' = skipped_games + 1
            /\ UNCHANGED <<pending, added_games>>
    /\ UNCHANGED <<env, dirs, stdout, run, lutris_config_dir, existing_slugs,
                   atStart, migrated>>

\* lines 146-151 and 157-171 when cursor.execute raises sqlite3.Error; the
\* handler prints, counts and then removes the config file
InsertFails(t, rolled_back) ==
    LET game == games[pos]
        name == config_slug_of(slug_of[game.title], t)
        written == write_yaml(files, lutris_config_dir, yaml_name(name),
                              lutris_game_config(game)) IN
    /\ InLoop
    /\ CanFail
    /\ faults' = faults + 1
    /\ classify(game, existing_slugs) = "eligible"
    /\ clock' = t
    /\ config_slug' = [config_slug EXCEPT ![pos] = name]
    /\ IF print_raises(msg_insert_error(game), stdout)
       THEN /\ files' = written
            /\ RaiseOut(pos)
       ELSE /\ files' = files_after_insert_error(written, lutris_config_dir,
                                                 yaml_name(name))
            /\ pending' = pending_after_insert_error(pending, rolled_back)
            /\ Leave(pos, "dbfail")
            /\ skipped_games' = skipped_games + 1
            /\ UNCHANGED added_games
    /\ UNCHANGED <<env, dirs, stdout, run, lutris_config_dir, existing_slugs,
                   atStart, migrated>>

\* lines 146-151 and 157-166: the file is written and the row inserted; the
\* messages of lines 162-165 come before added_games += 1
AddGame(t) ==
    LET game == games[pos]
        game_slug == slug_of[game.title]
        name == config_slug_of(game_slug, t)
        doc == lutris_game_config(game) IN
    /\ InLoop
    /\ classify(game, existing_slugs) = "eligible"
    /\ clock' = t
    /\ config_slug' = [config_slug EXCEPT ![pos] = name]
    /\ files' = write_yaml(files, lutris_config_dir, yaml_name(name), doc)
    /\ IF print_raises(msg_added(game, doc.prefix, yaml_name(name)), stdout)
       THEN RaiseOut(pos)
       ELSE /\ pending' = Append(pending,
                                 GameRow(game, game_slug, install_dir_of(game), name))
            /\ Leave(pos, "added")
            /\ added_games' = added_games + 1
            /\ UNCHANGED skipped_games
    /\ UNCHANGED <<env, dirs, stdout, run, lutris_config_dir, existing_slugs,
                   atStart, migrated, faults>>

\* lines 173-176 and 184-186: the loop is over, commit and close
Commit ==
    /\ pc = "loop"
    /\ pos > Len(games)
    /\ catalog' = catalog_after_commit(catalog, pending)
    /\ pending' = <<>>
    /\ pc' = "done"
    /\ ended' = "committed"
    /\ UNCHANGED <<env, dirs, files, clock, stdout, run, lutris_config_dir,
                   existing_slugs, pos, counters, outcome, config_slug, atStart,
                   migrated, faults>>

\* line 173 raises sqlite3.OperationalError (another connection holds a lock on
\* pga.db): lines 178-186 catch it and the connection is closed without commit
CommitRaises ==
    /\ pc = "loop"
    /\ pos > Len(games)
    /\ CanFail
    /\ faults' = faults + 1
    /\ catalog' = catalog_after_exception(catalog, pending)
    /\ pending' = <<>>
    /\ pc' = "done"
    /\ ended' = "raised"
    /\ UNCHANGED <<env, dirs, files, clock, stdout, run, lutris_config_dir,
                   existing_slugs, pos, counters, outcome, config_slug, atStart,
                   migrated>>

\* the entries whose rows the run that just ended committed: the run inserted
\* its rows in the order of the entries, and a rollback drops the earliest
CommittedHere ==
    LET n == IF ended = "committed" THEN Len(catalog) - Len(atStart.catalog) ELSE 0
    IN  {i \in Entries :
            /\ outcome[i] = "added"
            /\ Cardinality({j \in Entries : j >= i /\ outcome[j] = "added"}) <= n}

\* the script is run again, on the same manifest and on what the last run left
Rerun ==
    /\ pc = "done"
    /\ run < MaxRuns
    /\ run' = run + 1
    /\ migrated' = migrated \cup
            {[entry |-> i, config_slug |-> config_slug[i]] : i \in CommittedHere}
    /\ atStart' = Snapshot(catalog, dirs, files)
    /\ pc' = "idle"
    /\ ended' = ""
    /\ stdout' = "utf-8"
    /\ lutris_config_dir' = 0
    /\ existing_slugs' = {}
    /\ pending' = <<>>
    /\ pos' = 1
    /\ added_games' = 0
    /\ skipped_games' = 0
    /\ outcome' = [i \in Entries |-> "pending"]
    /\ config_slug' = [i \in Entries |-> <<>>]
    /\ UNCHANGED <<env, catalog, dirs, files, clock, faults>>

Times == clock..MaxClock

Next ==
    \/ \E answer \in Answers : Cancel(answer)
    \/ \E answer \in Answers, mkdir_ok \in BOOLEAN : AbortMissing(answer, mkdir_ok)
    \/ \E answer \in Answers, mkdir_ok \in BOOLEAN : AbortUnreadable(answer, mkdir_ok)
    \/ \E answer \in Answers, mkdir_ok \in BOOLEAN, enc \in Encodings :
          EnterLoop(answer, mkdir_ok, enc)
    \/ \E answer \in Answers, mkdir_ok \in BOOLEAN : SelectRaises(answer, mkdir_ok)
    \/ PassNotInstalled
    \/ SkipGame
    \/ LoopRaises
    \/ \E t \in Times, how \in WriteFaults : WriteFails(t, how)
    \/ \E t \in Times, rolled_back \in BOOLEAN : InsertFails(t, rolled_back)
    \/ \E t \in Times : AddGame(t)
    \/ Commit
    \/ CommitRaises
    \/ Rerun

Spec == Init /\ [][Next]_vars

(***************************************************************************)
(* Vocabulary of the properties.                                           *)
(***************************************************************************)
\* the rows of the catalog as the connection of the run sees them
AllRows == catalog \o pending

\* the positions in AllRows of the rows this run inserted
InsertedHere == {k \in 1..Len(AllRows) : k > Len(atStart.catalog)}

\* the step that processes entry i: the loop is at i and i gets an outcome
Processes(i) == pc = "loop" /\ pos = i /\ outcome[i] = "pending" /\ outcome'[i] # "pending"

\* the slug of a title as the specification words it, one character at a time
SlugChar(c) ==
    IF c = " " THEN <<"-">>
    ELSE IF c \in {":", "'", REG, TM, "."} THEN <<>>
    ELSE IF c = "&" THEN <<"a","n","d">>
    ELSE <<char_lower(c)>>

RECURSIVE SlugPerSpec(_)
SlugPerSpec(title) ==
    IF title = <<>> THEN <<>> ELSE SlugChar(Head(title)) \o SlugPerSpec(Tail(title))

\* "foo-bars-quest" and "/games/Foo"
SlugQuest == <<"f","o","o","-","b","a","r","s","-","q","u","e","s","t">>
DirFoo == <<"/","g","a","m","e","s","/","F","o","o">>

\* d is the parent directory of p: p is d, one separator and a name
IsParentDir(d, p) ==
    /\ Len(d) + 2 <= Len(p)
    /\ SubSeq(p, 1, Len(d)) = d
    /\ p[Len(d) + 1] = "/"
    /\ \A k \in (Len(d) + 2)..Len(p) : p[k] # "/"
    /\ d # <<>> => d[Len(d)] # "/"

\* the names of the files of the config directory of the run
NamesIn(fs) == {f.name : f \in {g \in fs : g.dir = lutris_config_dir}}

(***************************************************************************)
(* C1.  A row is inserted only if no row with the same slug is in the      *)
(* catalog at the moment of the insert, be it a row from before the run or *)
(* a row inserted earlier in the same run: a row this run inserted never   *)
(* has the slug of a row that precedes it.                                 *)
(***************************************************************************)
C1_NoSecondRowForSlug ==
    \A j \in InsertedHere : \A k \in 1..(j - 1) : AllRows[k].slug # AllRows[j].slug

(***************************************************************************)
(* C2.  As claimed: when an exception that the loop body does not handle   *)
(* ends the loop, the rows inserted before it are committed, that is, they *)
(* are in the catalog after the run.                                       *)
(***************************************************************************)
C2_PartialProgressCommitted ==
    ended = "raised" =>
        \A i \in Entries : outcome[i] = "added" =>
            \E k \in 1..Len(catalog) :
                k > Len(atStart.catalog) /\ catalog[k].configpath = config_slug[i]

(***************************************************************************)
(* C2, amended.  When an exception that the loop body does not handle ends *)
(* the loop, the rows inserted before it are not committed: after the run  *)
(* the catalog is what it was when the run began.                          *)
(***************************************************************************)
C2_PartialProgressRolledBack ==
    ended = "raised" => catalog = atStart.catalog

C2_Witness == ended = "raised" /\ added_games > 0

(***************************************************************************)
(* C3.  If the insert of an entry fails after its config file was written, *)
(* the config file does not exist once the entry has been processed, the   *)
(* entry is counted as skipped and the loop goes on to the next entry.     *)
(***************************************************************************)
C3_InsertFailureRemovesConfig ==
    [][\A t \in Times, rolled_back \in BOOLEAN :
          InsertFails(t, rolled_back) =>
              /\ FileAt(files', lutris_config_dir, yaml_name(config_slug'[pos])) = {}
              /\ skipped_games' = skipped_games + 1
              /\ pc' = "loop"
              /\ pos' = pos + 1]_vars

(***************************************************************************)
(* C4.  A run that ends without entering the loop (the answer is not y,    *)
(* a required file or directory is missing, the manifest cannot be parsed) *)
(* has written nothing: directories, files and catalog are as they were    *)
(* when the run began.                                                     *)
(***************************************************************************)
C4_AbortWritesNothing ==
    ended \in {"cancelled", "missing", "unreadable"} =>
        /\ dirs = atStart.dirs
        /\ files = atStart.files
        /\ catalog = atStart.catalog

(***************************************************************************)
(* C5.  As claimed: if writing the config file of an entry fails, no file  *)
(* for that entry remains in the config directory once the entry has been  *)
(* processed.                                                              *)
(***************************************************************************)
C5_WriteFailureLeavesNoFile ==
    \A i \in Entries :
        (outcome[i] = "writefail" /\ pos = i + 1) =>
            FileAt(files, lutris_config_dir, yaml_name(config_slug[i])) = {}

(***************************************************************************)
(* C5, amended.  If writing the config file of an entry fails, no row is   *)
(* inserted for the entry and it is not counted as added, and nothing is   *)
(* cleaned up: no file is removed, no file but the entry's own is changed, *)
(* and either the files are unchanged (open failed) or the file that open  *)
(* created is left in the config directory, truncated or complete.         *)
(***************************************************************************)
C5_WriteFailureSkipsWithoutCleanup ==
    [][\A t \in Times, how \in WriteFaults :
          WriteFails(t, how) =>
              LET name == yaml_name(config_slug'[pos]) IN
              /\ catalog' = catalog
              /\ pending' \in {pending, <<>>}
              /\ added_games' = added_games
              /\ NamesIn(files) \subseteq NamesIn(files')
              /\ {f \in files' : f.name # name} = {f \in files : f.name # name}
              /\ how = "noopen" => files' = files
              /\ how # "noopen" => FileAt(files', lutris_config_dir, name) # {}]_vars

C5_Witness ==
    \E i \in Entries :
        /\ outcome[i] \in {"writefail", "raised"} /\ faults > 0
        /\ added_games = 0 /\ catalog = atStart.catalog /\ pending = <<>>
        /\ \E f \in FileAt(files, lutris_config_dir, yaml_name(config_slug[i])) : ~f.complete

(***************************************************************************)
(* C6.  Idempotence.  An entry that an earlier run added and committed is  *)
(* skipped by a later run over the same manifest: the later run inserts no *)
(* row with its slug and writes no file for it, and the rows the catalog   *)
(* held and the entry's config file are unchanged.  When every installed   *)
(* entry with a title and an executable was migrated before, the run adds  *)
(* no row and changes no file.                                             *)
(***************************************************************************)
C6_RerunSkipsMigrated ==
    /\ \A m \in migrated :
          /\ outcome[m.entry] \in {"pending", "exists", "raised"}
          /\ config_slug[m.entry] = <<>>
          /\ \A k \in InsertedHere : AllRows[k].slug # slug_of[games[m.entry].title]
          /\ SubSeq(AllRows, 1, Len(atStart.catalog)) = atStart.catalog
          /\ {f \in files : f.name = yaml_name(m.config_slug)}
                = {f \in atStart.files : f.name = yaml_name(m.config_slug)}
    /\ (/\ migrated # {}
        /\ \A i \in Entries :
              (games[i].is_installed /\ games[i].title # <<>> /\ games[i].executable # <<>>)
                  => \E m \in migrated : m.entry = i)
       => (added_games = 0 /\ InsertedHere = {} /\ files = atStart.files)

C6_Witness ==
    /\ ended = "committed"
    /\ \E m \in migrated : outcome[m.entry] = "exists"
    /\ \A i \in Entries :
          (games[i].is_installed /\ games[i].title # <<>> /\ games[i].executable # <<>>)
              => \E m \in migrated : m.entry = i

(***************************************************************************)
(* C7.  Processing an entry that is not installed, or that has no          *)
(* executable, writes no config file and inserts no row; an entry that is  *)
(* not installed is not counted as skipped, an installed entry with no     *)
(* executable is.                                                          *)
(***************************************************************************)
C7_NotInstalledOrNoExecutable ==
    [][\A i \in Entries :
          (Processes(i) /\ (~games[i].is_installed \/ games[i].executable = <<>>)) =>
              /\ files' = files
              /\ Len(catalog' \o pending') <= Len(AllRows)
              /\ added_games' = added_games
              /\ config_slug'[i] = <<>>
              /\ skipped_games' =
                    IF games[i].is_installed THEN skipped_games + 1 ELSE skipped_games]_vars

(***************************************************************************)
(* C8.  Processing an installed entry with a title and an executable whose *)
(* slug is not in the catalog, without write or insert failure (the step   *)
(* is one in which the environment fails nothing), writes exactly one      *)
(* config file (the one the row refers to; every other file is untouched)  *)
(* and inserts exactly one row, and the slug of the row is the title       *)
(* lowercased, with each space turned into a hyphen, each of               *)
(* : ' (R) (TM) . deleted and each & turned into and; the title            *)
(* Foo: Bar's Quest(TM) gives foo-bars-quest.                              *)
(***************************************************************************)
C8_OneFileOneRowWithSlug ==
    [][\A i \in Entries :
          (/\ Processes(i)
           /\ games[i].is_installed
           /\ games[i].title # <<>>
           /\ games[i].executable # <<>>
           /\ SlugPerSpec(games[i].title) \notin slugs_of(catalog)
           /\ faults' = faults) =>
              /\ Len(pending') = Len(pending) + 1
              /\ SubSeq(pending', 1, Len(pending)) = pending
              /\ LET row == pending'[Len(pending')] IN
                 /\ row.name = games[i].title
                 /\ row.slug = SlugPerSpec(games[i].title)
                 /\ (games[i].title = TitleQuest => row.slug = SlugQuest)
                 /\ row.configpath = config_slug'[i]
                 /\ \E f \in files' :
                       /\ FileAt(files', lutris_config_dir, yaml_name(row.configpath)) = {f}
                       /\ f.complete
                       /\ f.doc.exe = games[i].executable
                 /\ {f \in files' : f.name # yaml_name(row.configpath)}
                       = {f \in files : f.name # yaml_name(row.configpath)}]_vars

(***************************************************************************)
(* C9.  The directory of the row of a migrated entry is the entry's        *)
(* install path when it has one, else the parent directory of its          *)
(* executable (/games/Foo for /games/Foo/foo.exe); the executable of the   *)
(* row is the entry's executable unchanged.                                *)
(***************************************************************************)
C9_DirectoryAndExecutable ==
    [][\A i \in Entries :
          (Processes(i) /\ outcome'[i] = "added") =>
              LET row == pending'[Len(pending')] IN
              /\ row.executable = games[i].executable
              /\ games[i].path # <<>> => row.directory = games[i].path
              /\ games[i].path = <<>> => IsParentDir(row.directory, games[i].executable)
              /\ (games[i].path = <<>> /\ games[i].executable = ExeFoo)
                    => row.directory = DirFoo]_vars

C9_Witness ==
    /\ \E k \in InsertedHere :
          AllRows[k].executable = ExeFoo /\ AllRows[k].directory = DirFoo
    /\ \E k \in InsertedHere :
          AllRows[k].executable = ExeG /\ AllRows[k].directory = DirD

(***************************************************************************)
(* C10.  When a run reaches the commit, every row it inserted refers to a  *)
(* config file that exists in the config directory and holds what was      *)
(* written for the entry of the row; this for every manifest, every        *)
(* non-decreasing clock and every pattern of insert failures.              *)
(***************************************************************************)
C10_RowsReferToTheirConfig ==
    (ended = "committed" /\ \A i \in Entries : outcome[i] # "writefail") =>
        \A i \in CommittedHere :
            \E f \in FileAt(files, lutris_config_dir, yaml_name(config_slug[i])) :
                f.complete /\ f.doc = lutris_game_config(games[i])

=============================================================================
